---- MODULE Spec2Model ----
(***************************************************************************)
(* Model of src/InstallAnyDesk.py: the INI patcher ensure_line_in_section   *)
(* (three regular expressions over the raw text), backup_file, and the two  *)
(* read-patch-write cycles main runs on /etc/gdm3/custom.conf.              *)
(*                                                                          *)
(* A text is a sequence of one-character strings.  Offsets are 0-based as   *)
(* in Python: the character at offset i of s is s[i+1], and s[a:b] is       *)
(* Slice(s, a, b).                                                          *)
(***************************************************************************)
EXTENDS Integers, Sequences, FiniteSets, TLC

NL == "\n"

Max(S) == CHOOSE x \in S : \A y \in S : y <= x

Min(S) == CHOOSE x \in S : \A y \in S : x <= y

\* Python slice s[a:b] for 0 <= a <= b <= len(s)
Slice(s, a, b) == SubSeq(s, a + 1, b)

\* str.endswith("\n")
EndsWithNL(s) == Len(s) > 0 /\ s[Len(s)] = NL

(***************************************************************************)
(* Regular-expression primitives (re.MULTILINE, no DOTALL).                 *)
(***************************************************************************)

\* \s : whitespace, the newline included
IsSpace(c) == c \in {" ", NL}

\* ^ under re.MULTILINE: start of the searched string or right after a newline
AtLineStart(s, i) == i = 0 \/ s[i] = NL

\* $ under re.MULTILINE: end of the searched string or right before a newline
AtLineEnd(s, i) == i = Len(s) \/ s[i + 1] = NL

\* a literal (re.escape) matches at offset i
MatchAt(s, i, lit) ==
    /\ i + Len(lit) <= Len(s)
    /\ \A k \in 1..Len(lit) : s[i + k] = lit[k]

\* offsets e >= j such that s[j:e] is whitespace only
SpaceRuns(s, j) == {e \in j..Len(s) : \A k \in (j + 1)..e : IsSpace(s[k])}

\* the offsets where `\s*$` can end when it starts at offset j
TrailEnds(s, j) == {e \in SpaceRuns(s, j) : AtLineEnd(s, e)}

NoMatch == [start |-> -1, end |-> -1]

(***************************************************************************)
(* section_re = ^\[section\]\s*$  ; section_re.search(conf)                 *)
(* leftmost start, and the greedy \s* gives the largest end                 *)
(***************************************************************************)
SectionHeader(section) == <<"[">> \o section \o <<"]">>

SectionMatchAt(conf, section, i) ==
    /\ AtLineStart(conf, i)
    /\ MatchAt(conf, i, SectionHeader(section))
    /\ TrailEnds(conf, i + Len(SectionHeader(section))) # {}

SectionSearch(conf, section) ==
    LET starts == {i \in 0..Len(conf) : SectionMatchAt(conf, section, i)}
    IN  IF starts = {} THEN NoMatch
        ELSE LET i == Min(starts)
             IN  [start |-> i,
                  end |-> Max(TrailEnds(conf, i + Len(SectionHeader(section))))]

(***************************************************************************)
(* re.search(r"^\[.+?\]\s*$", s, re.MULTILINE).start(), or -1 for None      *)
(***************************************************************************)
AnyHeaderAt(s, i) ==
    /\ AtLineStart(s, i)
    /\ i < Len(s)
    /\ s[i + 1] = "["
    /\ \E p \in (i + 2)..(Len(s) - 1) :
          /\ s[p + 1] = "]"
          /\ \A k \in (i + 2)..p : s[k] # NL
          /\ TrailEnds(s, p + 1) # {}

NextSectionStart(s) ==
    LET starts == {i \in 0..Len(s) : AnyHeaderAt(s, i)}
    IN  IF starts = {} THEN -1 ELSE Min(starts)

(***************************************************************************)
(* key_re = ^\s*key\s*=\s*.*$ ; key_re.search(block)                        *)
(* every quantifier is greedy; \s also consumes newlines, . does not        *)
(***************************************************************************)
\* offsets of an "=" reachable from offset b through whitespace
KeyEqs(block, b) == {c \in SpaceRuns(block, b) : c < Len(block) /\ block[c + 1] = "="}

\* offsets a where the key starts, reachable from offset i through whitespace
KeyStarts(block, key, i) ==
    {a \in SpaceRuns(block, i) :
        MatchAt(block, a, key) /\ KeyEqs(block, a + Len(key)) # {}}

\* end of `.*$` started at offset d: the end of the line d is on
DotStarEnd(block, d) == Min({e \in d..Len(block) : AtLineEnd(block, e)})

KeyMatchEnd(block, key, i) ==
    LET a == Max(KeyStarts(block, key, i))
        c == Max(KeyEqs(block, a + Len(key)))
        d == Max(SpaceRuns(block, c + 1))
    IN  DotStarEnd(block, d)

KeySearch(block, key) ==
    LET starts == {i \in 0..Len(block) :
                      AtLineStart(block, i) /\ KeyStarts(block, key, i) # {}}
    IN  IF starts = {} THEN NoMatch
        ELSE [start |-> Min(starts), end |-> KeyMatchEnd(block, key, Min(starts))]

\* f"{key}={value}"
KeyLine(key, value) == key \o <<"=">> \o value

\* lines 75-82: replace the first match, or append
PatchBlock(block, key, value) ==
    LET m == KeySearch(block, key)
    IN  IF m # NoMatch
        THEN Slice(block, 0, m.start) \o KeyLine(key, value)
                 \o Slice(block, m.end, Len(block))
        ELSE (IF EndsWithNL(block) THEN block ELSE block \o <<NL>>)
                 \o KeyLine(key, value) \o <<NL>>

\* AppendSection without `if not conf.endswith("\n")`: the newline is never added
AppendSection_NoNewlineGuard(conf, section, key, value) ==
    conf \o <<NL>> \o SectionHeader(section) \o <<NL>> \o KeyLine(key, value) \o <<NL>>

\* lines 60-65: the section is missing, append it at the end
AppendSection(conf, section, key, value) ==
    (IF EndsWithNL(conf) THEN conf ELSE conf \o <<NL>>)
        \o <<NL>> \o SectionHeader(section) \o <<NL>> \o KeyLine(key, value) \o <<NL>>

ensure_line_in_section(conf, section, key, value) ==
    LET match == SectionSearch(conf, section)
    IN  IF match = NoMatch
        THEN AppendSection(conf, section, key, value)
        ELSE LET start == match.end
                 rest == Slice(conf, start, Len(conf))
                 next_section == NextSectionStart(rest)
                 end == start + (IF next_section # -1 THEN next_section ELSE Len(rest))
                 block == Slice(conf, start, end)
             IN  Slice(conf, 0, start) \o PatchBlock(block, key, value)
                     \o Slice(conf, end, Len(conf))

(***************************************************************************)
(* The strings the program passes (lines 92, 106, 107, 129).                *)
(***************************************************************************)
DAEMON == <<"d", "a", "e", "m", "o", "n">>

WAYLAND_ENABLE == <<"W", "a", "y", "l", "a", "n", "d", "E", "n", "a", "b", "l", "e">>

AUTOMATIC_LOGIN_ENABLE == <<"A", "u", "t", "o", "m", "a", "t", "i", "c", "L", "o", "g", "i", "n", "E", "n", "a", "b", "l", "e">>

AUTOMATIC_LOGIN == <<"A", "u", "t", "o", "m", "a", "t", "i", "c", "L", "o", "g", "i", "n">>

STR_FALSE == <<"f", "a", "l", "s", "e">>

STR_TRUE == <<"t", "r", "u", "e">>

\* argparse default of --user
DEFAULT_USER == <<"g", "e", "r", "t">>

(***************************************************************************)
(* Bounds and input sets.                                                   *)
(***************************************************************************)
\* most lines of a text given to ensure_line_in_section
MaxLines == 3

\* most lines of /etc/gdm3/custom.conf at program start
MaxFileLines == 3

\* latest clock second datetime.now() returns
MaxClock == 2

RECURSIVE JoinLines(_)
\* "\n".join(ls)
JoinLines(ls) ==
    IF Len(ls) = 0 THEN <<>>
    ELSE IF Len(ls) = 1 THEN ls[1]
    ELSE ls[1] \o <<NL>> \o JoinLines(Tail(ls))

\* every text of at most n lines drawn from lineSet, with or without a final newline
Texts(lineSet, n) ==
    {JoinLines(ls) \o tail :
        ls \in UNION {[1..k -> lineSet] : k \in 0..n}, tail \in {<<>>, <<NL>>}}

\* lines of the texts the patcher is applied to: section "d", "s"; keys "k", "ke"
FnLines ==
    { <<"[", "d", "]">>, <<"[", "s", "]">>, <<"[", "d", "]", " ">>,
      <<"k", "=", "v">>, <<" ", "k", " ", "=", " ", "w">>, <<"k", "=">>,
      <<"k", "e", "=", "v">>, <<"#", "c">>, <<>> }

FnSections == { <<"d">> }

FnKeys == { <<"k">>, <<"k", "e">> }

FnValues == { <<"v">>, <<"w">> }

\* lines of the initial /etc/gdm3/custom.conf
FileLines ==
    { SectionHeader(DAEMON), <<"[", "s", "]">>,
      KeyLine(WAYLAND_ENABLE, STR_TRUE), KeyLine(WAYLAND_ENABLE, STR_FALSE),
      KeyLine(AUTOMATIC_LOGIN_ENABLE, <<>>), <<"#", "c">>, <<>> }

NoFile == <<"<absent>">>

NoBackup == -1

(***************************************************************************)
(* State.                                                                   *)
(***************************************************************************)
VARIABLES
    file,              \* content of GDM_CUSTOM_CONF, or NoFile
    backups,           \* timestamp |-> content of custom.conf.bak_<timestamp>
    now,               \* the last second the clock returned
    pc,                \* position of the program
    inv,               \* the function main is in
    conf,              \* local conf of the running function
    conf2,             \* local conf2 of the running function
    backup,            \* timestamp of the backup the running function made
    writes,            \* number of write_text calls so far
    enable_autologin,  \* args.enable_autologin
    user,              \* args.user
    t_conf,            \* pure-function harness: input text
    t_section,
    t_key,
    t_value,
    t_once,            \* ensure_line_in_section applied once
    t_twice,           \* ... applied to its own result
    t_pc

progvars == <<file, backups, now, pc, inv, conf, conf2, backup, writes,
              enable_autologin, user>>

fnvars == <<t_conf, t_section, t_key, t_value, t_once, t_twice, t_pc>>

vars == <<progvars, fnvars>>

EmptyMap == [t \in {} |-> <<>>]

FnIdle ==
    /\ t_conf = <<>> /\ t_section = <<>> /\ t_key = <<>> /\ t_value = <<>>
    /\ t_once = <<>> /\ t_twice = <<>> /\ t_pc = "off"

ProgIdle ==
    /\ file = NoFile /\ backups = EmptyMap /\ now = 0 /\ pc = "off" /\ inv = "none"
    /\ conf = <<>> /\ conf2 = <<>> /\ backup = NoBackup /\ writes = 0
    /\ enable_autologin = FALSE /\ user = <<>>

(***************************************************************************)
(* The program: main, lines 127-150.                                        *)
(***************************************************************************)
Init ==
    /\ file \in Texts(FileLines, MaxFileLines) \cup {NoFile}
    /\ backups = EmptyMap
    /\ now = 0
    /\ pc = "main"
    /\ inv = "main"
    /\ conf = <<>>
    /\ conf2 = <<>>
    /\ backup = NoBackup
    /\ writes = 0
    /\ enable_autologin \in BOOLEAN
    /\ user = DEFAULT_USER
    /\ FnIdle

\* lines 137-144: GDM_CUSTOM_CONF.exists(), then disable_wayland_in_gdm()
Main ==
    /\ pc = "main"
    /\ IF file = NoFile
       THEN pc' = "failed" /\ inv' = inv
       ELSE pc' = "backup" /\ inv' = "disable_wayland_in_gdm"
    /\ UNCHANGED <<file, backups, now, conf, conf2, backup, writes,
                   enable_autologin, user, fnvars>>

\* shutil.copy2(path, backup): creates or overwrites the destination
CopyFile(bs, ts, content) ==
    [t \in DOMAIN bs \cup {ts} |-> IF t = ts THEN content ELSE bs[t]]

\* backup_file without the copy: it names the backup and returns
BackupFile_NoCopy ==
    /\ pc = "backup"
    /\ \E ts \in now..MaxClock :
          /\ now' = ts
          /\ backup' = ts
          /\ pc' = IF file = NoFile THEN "failed" ELSE "read"
    /\ UNCHANGED <<file, backups, inv, conf, conf2, writes, enable_autologin, user, fnvars>>

\* lines 42-49: backup_file, the first statement of both functions.
\* ts is the clock second; ok = FALSE is shutil.copy2 raising.
BackupFile ==
    /\ pc = "backup"
    /\ IF file = NoFile
       THEN /\ pc' = "failed"
            /\ UNCHANGED <<backups, now, backup>>
       ELSE \E ts \in now..MaxClock, ok \in BOOLEAN :
              /\ now' = ts
              /\ IF ok
                 THEN /\ backups' = CopyFile(backups, ts, file)
                      /\ backup' = ts
                      /\ pc' = "read"
                 ELSE /\ pc' = "failed"
                      /\ UNCHANGED <<backups, backup>>
    /\ UNCHANGED <<file, inv, conf, conf2, writes, enable_autologin, user, fnvars>>

\* lines 89, 103: conf = GDM_CUSTOM_CONF.read_text(...)
ReadText ==
    /\ pc = "read"
    /\ conf' = file
    /\ pc' = "patch"
    /\ UNCHANGED <<file, backups, now, inv, conf2, backup, writes,
                   enable_autologin, user, fnvars>>

\* line 92
PatchWayland ==
    /\ pc = "patch"
    /\ inv = "disable_wayland_in_gdm"
    /\ conf2' = ensure_line_in_section(conf, DAEMON, WAYLAND_ENABLE, STR_FALSE)
    /\ pc' = "compare"
    /\ UNCHANGED <<file, backups, now, inv, conf, backup, writes,
                   enable_autologin, user, fnvars>>

\* lines 105-107: two upserts chained in memory
PatchAutologin ==
    /\ pc = "patch"
    /\ inv = "enable_gdm_autologin"
    /\ conf2' = ensure_line_in_section(
                    ensure_line_in_section(conf, DAEMON, AUTOMATIC_LOGIN_ENABLE, STR_TRUE),
                    DAEMON, AUTOMATIC_LOGIN, user)
    /\ pc' = "compare"
    /\ UNCHANGED <<file, backups, now, inv, conf, backup, writes,
                   enable_autologin, user, fnvars>>

\* the write without the `conf2 != conf` test
WriteAlways ==
    /\ pc = "compare"
    /\ file' = conf2
    /\ writes' = writes + 1
    /\ pc' = "return"
    /\ UNCHANGED <<backups, now, inv, conf, conf2, backup, enable_autologin,
                   user, fnvars>>

\* lines 94-98, 109-113: if conf2 != conf: write_text(conf2)
WriteIfChanged ==
    /\ pc = "compare"
    /\ IF conf2 # conf
       THEN file' = conf2 /\ writes' = writes + 1
       ELSE UNCHANGED <<file, writes>>
    /\ pc' = "return"
    /\ UNCHANGED <<backups, now, inv, conf, conf2, backup, enable_autologin,
                   user, fnvars>>

\* lines 146-150: back in main; enable_gdm_autologin(args.user) if requested
Return ==
    /\ pc = "return"
    /\ IF inv = "disable_wayland_in_gdm" /\ enable_autologin
       THEN pc' = "backup" /\ inv' = "enable_gdm_autologin"
       ELSE pc' = "done" /\ inv' = "main"
    /\ conf' = <<>>
    /\ conf2' = <<>>
    /\ backup' = NoBackup
    /\ UNCHANGED <<file, backups, now, writes, enable_autologin, user, fnvars>>

Next ==
    \/ Main
    \/ BackupFile
    \/ ReadText
    \/ PatchWayland
    \/ PatchAutologin
    \/ WriteIfChanged
    \/ Return

Spec == Init /\ [][Next]_vars

(***************************************************************************)
(* ensure_line_in_section on its own: applied once, then to its own result. *)
(***************************************************************************)
FnInit ==
    /\ t_conf \in Texts(FnLines, MaxLines)
    /\ t_section \in FnSections
    /\ t_key \in FnKeys
    /\ t_value \in FnValues
    /\ t_once = <<>>
    /\ t_twice = <<>>
    /\ t_pc = "start"
    /\ ProgIdle

PatchOnce ==
    /\ t_pc = "start"
    /\ t_once' = ensure_line_in_section(t_conf, t_section, t_key, t_value)
    /\ t_pc' = "once"
    /\ UNCHANGED <<t_conf, t_section, t_key, t_value, t_twice, progvars>>

PatchAgain ==
    /\ t_pc = "once"
    /\ t_twice' = ensure_line_in_section(t_once, t_section, t_key, t_value)
    /\ t_pc' = "twice"
    /\ UNCHANGED <<t_conf, t_section, t_key, t_value, t_once, progvars>>

FnNext == PatchOnce \/ PatchAgain

FnSpec == FnInit /\ [][FnNext]_vars

(***************************************************************************)
(* Vocabulary of the properties: a text as a sequence of lines.             *)
(***************************************************************************)
RECURSIVE SplitLines(_)
\* s.split("\n")
SplitLines(s) ==
    LET nl == {i \in 1..Len(s) : s[i] = NL}
    IN  IF nl = {} THEN <<s>>
        ELSE <<SubSeq(s, 1, Min(nl) - 1)>> \o SplitLines(SubSeq(s, Min(nl) + 1, Len(s)))

\* line without its trailing blanks
RStrip(line) == SubSeq(line, 1, Max({0} \cup {i \in 1..Len(line) : line[i] # " "}))

\* line without its leading blanks
LStrip(line) ==
    SubSeq(line, Min({Len(line) + 1} \cup {i \in 1..Len(line) : line[i] # " "}), Len(line))

\* the line is `[section]`, trailing blanks allowed
IsHeaderOf(line, section) == RStrip(line) = SectionHeader(section)

\* the line is `[anything]`, trailing blanks allowed
IsAnyHeader(line) ==
    LET r == RStrip(line) IN Len(r) >= 3 /\ r[1] = "[" /\ r[Len(r)] = "]"

\* the line is `key = ...`, blanks allowed before the key and around "="
IsKeyLineOf(line, key) ==
    LET l == LStrip(line)
    IN  /\ MatchAt(l, 0, key)
        /\ LET r == LStrip(SubSeq(l, Len(key) + 1, Len(l)))
           IN  Len(r) > 0 /\ r[1] = "="

\* index of the first header line of the section, 0 when there is none
FirstHeader(ls, section) ==
    LET hs == {i \in 1..Len(ls) : IsHeaderOf(ls[i], section)}
    IN  IF hs = {} THEN 0 ELSE Min(hs)

\* index of the first header line after line h, Len(ls) + 1 when there is none
BodyEnd(ls, h) ==
    Min({Len(ls) + 1} \cup {j \in (h + 1)..Len(ls) : IsAnyHeader(ls[j])})

\* indices of the key's lines in the body of the first such section
KeyLinesIn(ls, section, key) ==
    LET h == FirstHeader(ls, section)
    IN  IF h = 0 THEN {}
        ELSE {j \in (h + 1)..(BodyEnd(ls, h) - 1) : IsKeyLineOf(ls[j], key)}

\* the body of the first `[section]` holds a line that is exactly key=value
HasKeyInSection(text, section, key, value) ==
    LET ls == SplitLines(text)
        h == FirstHeader(ls, section)
    IN  /\ h # 0
        /\ \E j \in (h + 1)..(BodyEnd(ls, h) - 1) : ls[j] = KeyLine(key, value)

IsPrefixOf(a, b) == Len(a) <= Len(b) /\ SubSeq(b, 1, Len(a)) = a

IsSuffixOf(a, b) == Len(a) <= Len(b) /\ SubSeq(b, Len(b) - Len(a) + 1, Len(b)) = a

InsertAt(ls, j, line) == SubSeq(ls, 1, j - 1) \o <<line>> \o SubSeq(ls, j, Len(ls))

(***************************************************************************)
(* Properties of ensure_line_in_section, under FnSpec.                      *)
(***************************************************************************)

\* C1: applying the patch twice with the same (section, key, value) yields
\* the same text as applying it once.
C1_Idempotent == t_pc = "twice" => t_twice = t_once

\* C2: the result has a `[section]` header line and, in the body of the
\* first such section, a line that is exactly key=value.
C2_Postcondition ==
    t_pc = "once" => HasKeyInSection(t_once, t_section, t_key, t_value)

\* C3: the lines before the first `[section]` header and the lines from the
\* next section header onward (that header included) are the same lines, at
\* the start and at the end of the result.
C3_OtherSectionsUntouched ==
    t_pc = "once" =>
        LET ls == SplitLines(t_conf)
            out == SplitLines(t_once)
            h == FirstHeader(ls, t_section)
        IN  IF h = 0
            THEN IsPrefixOf(ls, out)
            ELSE /\ IsPrefixOf(SubSeq(ls, 1, h - 1), out)
                 /\ IsSuffixOf(SubSeq(ls, BodyEnd(ls, h), Len(ls)), out)

\* C4: when the section exists, the result is the input with the first line
\* of the key in the section replaced by key=value, or, when the section has
\* no line for the key, with one key=value line added to the section and
\* every other line unchanged, in order (a final newline may be added).
C4_SectionOtherwiseIdentical ==
    t_pc = "once" =>
        LET ls == SplitLines(t_conf)
            out == SplitLines(t_once)
            h == FirstHeader(ls, t_section)
            ks == KeyLinesIn(ls, t_section, t_key)
            line == KeyLine(t_key, t_value)
        IN  h # 0 =>
              IF ks # {}
              THEN out = [ls EXCEPT ![Min(ks)] = line]
              ELSE \E j \in (h + 1)..(BodyEnd(ls, h)) :
                      \/ out = InsertAt(ls, j, line)
                      \/ out = InsertAt(ls, j, line) \o << <<>> >>

\* C8: when no line of the text is exactly `[section]`, the result is the
\* text (plus a newline if it did not end with one) followed by
\* "\n[section]\nkey=value\n".
C8_SectionCreation_AsClaimed ==
    t_pc = "once" =>
        ((\A i \in 1..Len(SplitLines(t_conf)) :
              SplitLines(t_conf)[i] # SectionHeader(t_section))
          => t_once = (IF EndsWithNL(t_conf) THEN t_conf ELSE t_conf \o <<NL>>)
                        \o <<NL>> \o SectionHeader(t_section) \o <<NL>>
                        \o t_key \o <<"=">> \o t_value \o <<NL>>)

\* C8 (amended): when no line of the text is `[section]` followed only by
\* optional trailing whitespace, the result is the text (plus a newline if it
\* did not end with one) followed by "\n[section]\nkey=value\n".
C8_SectionCreation ==
    t_pc = "once" =>
        (FirstHeader(SplitLines(t_conf), t_section) = 0
          => t_once = (IF EndsWithNL(t_conf) THEN t_conf ELSE t_conf \o <<NL>>)
                        \o <<NL>> \o SectionHeader(t_section) \o <<NL>>
                        \o t_key \o <<"=">> \o t_value \o <<NL>>)

\* a section was created after a text that did not end with a newline
C8_Witness ==
    /\ t_pc = "once"
    /\ FirstHeader(SplitLines(t_conf), t_section) = 0
    /\ t_conf # <<>>
    /\ ~EndsWithNL(t_conf)
    /\ IsSuffixOf(SectionHeader(t_section) \o <<NL>> \o KeyLine(t_key, t_value) \o <<NL>>,
                  t_once)

\* C9: when the section already has lines for the key, the first of them
\* becomes key=value, the others stay as they are and no line is added: the
\* section has as many lines for the key after as before.
C9_ReplaceFirstInPlace ==
    t_pc = "once" =>
        LET ls == SplitLines(t_conf)
            out == SplitLines(t_once)
            ks == KeyLinesIn(ls, t_section, t_key)
            ko == KeyLinesIn(out, t_section, t_key)
        IN  ks # {} =>
              /\ Cardinality(ko) = Cardinality(ks)
              /\ out[Min(ko)] = KeyLine(t_key, t_value)
              /\ \A j \in ks \ {Min(ks)} : \E k \in ko \ {Min(ko)} : out[k] = ls[j]

(***************************************************************************)
(* Properties of the program, under Spec.                                   *)
(***************************************************************************)

\* C5: every write of the config file happens in an invocation that made a
\* backup before, and at the write the backup exists and holds the text the
\* invocation read, which is the file's content before the write.
C5_BackupPrecedesWrite ==
    [][writes' # writes =>
          /\ backup # NoBackup
          /\ backup \in DOMAIN backups
          /\ backups[backup] = conf
          /\ conf = file]_vars

\* an invocation wrote the file and its backup holds the text it read
C5_Witness ==
    /\ pc = "return"
    /\ writes >= 1
    /\ file = conf2
    /\ conf2 # conf
    /\ backup \in DOMAIN backups
    /\ backups[backup] = conf

\* C6: the file is written, and its content changes, only at the compare
\* step of an invocation whose backup succeeded and whose patched text
\* differs from the text read; nothing runs after a failure.
C6_WriteGuard ==
    [][/\ (writes' # writes \/ file' # file) =>
             /\ pc = "compare"
             /\ backup \in DOMAIN backups
             /\ conf2 # conf
             /\ file' = conf2
             /\ writes' = writes + 1
       /\ pc # "failed"]_vars

\* a "no change" invocation is over: backed up, nothing written
C6_Witness ==
    /\ pc = "return"
    /\ inv = "disable_wayland_in_gdm"
    /\ conf2 = conf
    /\ backup \in DOMAIN backups
    /\ writes = 0
    /\ file = conf

\* C7: a backup file, once written, is never changed by a later invocation.
C7_BackupNeverOverwritten ==
    [][\A t \in DOMAIN backups : t \in DOMAIN backups' /\ backups'[t] = backups[t]]_vars

\* C10: an upsert made after WaylandEnable=false is in the [daemon] section
\* keeps it there: when enable_gdm_autologin returns, the body of the first
\* [daemon] section holds key=value for all three keys set in the run.
C10_UpsertsAccumulate ==
    (/\ pc = "return"
     /\ inv = "enable_gdm_autologin"
     /\ HasKeyInSection(conf, DAEMON, WAYLAND_ENABLE, STR_FALSE))
    => /\ HasKeyInSection(file, DAEMON, WAYLAND_ENABLE, STR_FALSE)
       /\ HasKeyInSection(file, DAEMON, AUTOMATIC_LOGIN_ENABLE, STR_TRUE)
       /\ HasKeyInSection(file, DAEMON, AUTOMATIC_LOGIN, user)

====
